---- MODULE Spec2Model ----
(***************************************************************************)
(* Model of Twitter-daily-poster (src/main.py): one invocation posts one   *)
(* idea, chosen by a shuffled order and a cursor persisted in state.json,  *)
(* optionally gated by a daily time window.                                *)
(*                                                                         *)
(* Text is modelled as a sequence of one-character strings.  JSON/Python   *)
(* values are tagged records (field t), so that a field of the state file  *)
(* can be missing, null, a number or a list, as json.loads can return.     *)
(***************************************************************************)
EXTENDS Integers, Sequences, FiniteSets, TLC

VARIABLES
    file,        \* content of data/state.json (STATE_FILE)
    ideasFile,   \* content of content/ideas_ru.txt (CONTENT_FILE)
    pc,          \* per invocation: position in main()
    tzname,      \* per invocation: local `tzname`
    topic,       \* per invocation: local `topic`
    ideas,       \* per invocation: local `ideas`
    state,       \* per invocation: local `state`
    idx,         \* per invocation: local `idx`
    idea_index,  \* per invocation: local `idea_index`
    tweet,       \* per invocation: local `tweet`
    exit,        \* per invocation: how the last run ended
    file0,       \* history: STATE_FILE as it was when the run started
    trace,       \* history: the calls the run has made, in order
    last,        \* history: the latest finished run that passed the gate
    streak,      \* history: ideas posted by successful runs in a row since a fresh state
    pristine,    \* history: STATE_FILE has only ever been written by save_state
    call         \* harness for the pure functions: arguments and result

vars == <<file, ideasFile, pc, tzname, topic, ideas, state, idx, idea_index, tweet,
          exit, file0, trace, last, streak, pristine, call>>

runVars == <<file, ideasFile, pc, tzname, topic, ideas, state, idx, idea_index, tweet,
             exit, file0, trace, last, streak, pristine>>

-----------------------------------------------------------------------------
(* Bounds *)

MaxIdeas == 3          \* most ideas in the content file
MaxStamp == 1          \* distinct clock readings for last_posted_at
MaxText == 6           \* longest text handed to trim_to_limit on its own
MaxLimit == 5          \* largest limit handed to trim_to_limit on its own

Procs == {1, 2}        \* invocations that may exist at once

-----------------------------------------------------------------------------
(* Python values *)

Missing == [t |-> "missing"]                 \* key not in the dict
None == [t |-> "null"]
PyInt(i) == [t |-> "int", v |-> i]
PyList(s) == [t |-> "list", l |-> s]         \* list of ints
PyDict(i, o, l) == [t |-> "dict", index |-> i, order |-> o, last_posted_at |-> l]

\* Python truthiness of `x or []` operands
Truthy(x) ==
    CASE x.t = "int" -> x.v # 0
      [] x.t = "list" -> x.l # <<>>
      [] OTHER -> FALSE

Range(s) == {s[i] : i \in DOMAIN s}

\* list(range(n))
range(n) == [i \in 1..n |-> i - 1]

\* every list random.shuffle(s) can leave behind
Shuffles(s) ==
    LET n == Len(s)
        bij == {f \in [1..n -> 1..n] : \A i, j \in 1..n : f[i] = f[j] => i = j}
    IN {[i \in 1..n |-> s[f[i]]] : f \in bij}

IsPermutation(s, n) == Len(s) = n /\ Range(s) = 0..(n - 1)

-----------------------------------------------------------------------------
(* Text helpers: str.strip, str.split(":"), int(), str.replace *)

IsSpace(c) == c \in {" ", "\n", "\t"}

RECURSIVE lstrip(_)
lstrip(s) == IF s # <<>> /\ IsSpace(Head(s)) THEN lstrip(Tail(s)) ELSE s

RECURSIVE rstrip(_)
rstrip(s) ==
    IF s # <<>> /\ IsSpace(s[Len(s)]) THEN rstrip(SubSeq(s, 1, Len(s) - 1)) ELSE s

strip(s) == rstrip(lstrip(s))

\* s.split(sep) for a one-character separator: the list of the pieces
RECURSIVE split(_, _)
split(s, sep) ==
    IF \A i \in DOMAIN s : s[i] # sep THEN <<s>>
    ELSE LET k == CHOOSE i \in DOMAIN s : s[i] = sep /\ \A j \in 1..(i - 1) : s[j] # sep
         IN <<SubSeq(s, 1, k - 1)>> \o split(SubSeq(s, k + 1, Len(s)), sep)

Digits == <<"0", "1", "2", "3", "4", "5", "6", "7", "8", "9">>
IsDigit(c) == \E d \in DOMAIN Digits : Digits[d] = c
DigitVal(c) == (CHOOSE d \in DOMAIN Digits : Digits[d] = c) - 1

RECURSIVE DecVal(_)
DecVal(s) == IF s = <<>> THEN 0 ELSE 10 * DecVal(SubSeq(s, 1, Len(s) - 1)) + DigitVal(s[Len(s)])

\* int(s): surrounding whitespace is dropped, one sign is allowed, the rest
\* must be one or more digits; anything else raises ValueError
int(s) ==
    LET b == strip(s)
        signed == b # <<>> /\ Head(b) \in {"+", "-"}
        d == IF signed THEN Tail(b) ELSE b
    IN IF d # <<>> /\ \A i \in DOMAIN d : IsDigit(d[i])
       THEN [ok |-> TRUE, v |-> IF signed /\ Head(b) = "-" THEN 0 - DecVal(d) ELSE DecVal(d)]
       ELSE [ok |-> FALSE, v |-> 0]

-----------------------------------------------------------------------------
(* Time gate: within_run_window (main.py:58-79)                            *)
(* Times are minutes since local midnight.  now carries seconds in the     *)
(* code, start and end do not, so comparing whole minutes decides the same. *)

DayMinutes == 1440

\* the zones pytz.timezone accepts here, with their offset from UTC in minutes
ZoneOffset == [z \in {"Europe/Riga", "UTC", "Asia/Tokyo"} |->
                 CASE z = "Europe/Riga" -> 120
                   [] z = "Asia/Tokyo" -> 540
                   [] OTHER -> 0]
KnownZone(tz) == tz \in DOMAIN ZoneOffset

\* datetime.now(tz) as minutes since local midnight, for the UTC reading utc
LocalNow(tz, utc) == (utc + ZoneOffset[tz]) % DayMinutes

\* sh, sm = map(int, hm.split(":")) followed by now.replace(hour=sh, minute=sm):
\* either raises ValueError or yields the minute of the day
ParseHM(hm) ==
    LET parts == split(hm, ":")
        h == int(parts[1])
        m == int(parts[2])
    IN IF Len(parts) # 2 THEN [ok |-> FALSE, v |-> 0]
       ELSE IF ~h.ok \/ ~m.ok THEN [ok |-> FALSE, v |-> 0]
       ELSE IF h.v < 0 \/ h.v > 23 \/ m.v < 0 \/ m.v > 59 THEN [ok |-> FALSE, v |-> 0]
       ELSE [ok |-> TRUE, v |-> h.v * 60 + m.v]

\* as WindowBody, with the end of the window inclusive
WindowBody_inclusive(tz, start_hm, end_hm, utc) ==
    IF ~KnownZone(tz) THEN [exc |-> "UnknownTimeZoneError", ret |-> FALSE]
    ELSE LET now == LocalNow(tz, utc)
             start == ParseHM(start_hm)
             end == ParseHM(end_hm)
         IN IF ~start.ok \/ ~end.ok THEN [exc |-> "ValueError", ret |-> FALSE]
            ELSE IF end.v <= start.v
                 THEN [exc |-> "none", ret |-> (now >= start.v) \/ (now <= end.v)]
                 ELSE [exc |-> "none", ret |-> (now >= start.v) /\ (now <= end.v)]

\* the try block of within_run_window: the exception it raises, or its result
WindowBody(tz, start_hm, end_hm, utc) ==
    IF ~KnownZone(tz) THEN [exc |-> "UnknownTimeZoneError", ret |-> FALSE]
    ELSE LET now == LocalNow(tz, utc)
             start == ParseHM(start_hm)
             end == ParseHM(end_hm)
         IN IF ~start.ok \/ ~end.ok THEN [exc |-> "ValueError", ret |-> FALSE]
            ELSE IF end.v <= start.v
                 THEN [exc |-> "none", ret |-> (now >= start.v) \/ (now < end.v)]
                 ELSE [exc |-> "none", ret |-> (now >= start.v) /\ (now < end.v)]

\* as within_run_window, but catching ValueError only
within_run_window_valueerror(tz, start_hm, end_hm, utc) ==
    IF ~(tz # "" /\ start_hm # <<>> /\ end_hm # <<>>)
    THEN [exc |-> "none", ret |-> TRUE]
    ELSE LET r == WindowBody(tz, start_hm, end_hm, utc)
         IN IF r.exc = "ValueError" THEN [exc |-> "none", ret |-> TRUE] ELSE r

\* within_run_window: the exception that leaves it ("none": it returns ret)
within_run_window(tz, start_hm, end_hm, utc) ==
    IF ~(tz # "" /\ start_hm # <<>> /\ end_hm # <<>>)
    THEN [exc |-> "none", ret |-> TRUE]                       \* no gating
    ELSE LET r == WindowBody(tz, start_hm, end_hm, utc)
         IN IF r.exc # "none" THEN [exc |-> "none", ret |-> TRUE]   \* except Exception
            ELSE r

-----------------------------------------------------------------------------
(* Text composer: trim_to_limit (main.py:81-88), build_tweet (main.py:90-102) *)

TweetLimit == 280
\* the one character U+2026 appended to a cut text
Ellipsis == "U+2026"

\* s[:k] of Python, also for negative k
Slice(s, k) ==
    IF k >= 0 THEN SubSeq(s, 1, IF k < Len(s) THEN k ELSE Len(s))
    ELSE SubSeq(s, 1, IF Len(s) + k > 0 THEN Len(s) + k ELSE 0)

\* s.rfind(" "): 0-based position of the last space, -1 if there is none
rfind_space(s) ==
    IF \A i \in DOMAIN s : s[i] # " " THEN 0 - 1
    ELSE (CHOOSE i \in DOMAIN s : s[i] = " " /\ \A j \in (i + 1)..Len(s) : s[j] # " ") - 1

\* as trim_to_limit, but keeping limit characters in front of the ellipsis
trim_to_limit_full(text, limit) ==
    IF Len(text) <= limit THEN text
    ELSE LET prefix == Slice(text, limit)
             cutoff == IF rfind_space(prefix) >= 0
                       THEN Slice(prefix, rfind_space(prefix))
                       ELSE prefix
         IN Slice(cutoff, limit) \o <<Ellipsis>>

\* as trim_to_limit, but cutting in the middle of a word
trim_to_limit_hard(text, limit) ==
    IF Len(text) <= limit THEN text
    ELSE Slice(Slice(text, limit), limit - 1) \o <<Ellipsis>>

trim_to_limit(text, limit) ==
    IF Len(text) <= limit THEN text
    ELSE LET prefix == Slice(text, limit)
             cutoff == IF rfind_space(prefix) >= 0
                       THEN Slice(prefix, rfind_space(prefix))
                       ELSE prefix
         IN Slice(cutoff, limit - 1) \o <<Ellipsis>>

\* s.replace(old, new) for a non-empty old
RECURSIVE replace(_, _, _)
replace(s, old, new) ==
    IF Len(s) < Len(old) THEN s
    ELSE IF SubSeq(s, 1, Len(old)) = old
         THEN new \o replace(SubSeq(s, Len(old) + 1, Len(s)), old, new)
         ELSE <<Head(s)>> \o replace(Tail(s), old, new)

Contains(s, sub) == \E i \in 1..(Len(s) - Len(sub) + 1) : SubSeq(s, i, i + Len(sub) - 1) = sub

TopicToken == <<"{", "t", "o", "p", "i", "c", "}">>

\* os.getenv("ADD_DATE", "true").lower() in ("1", "true", "yes", "y")
AddDateFlag(raw) == raw \in {"1", "true", "True", "TRUE", "yes", "Yes", "y", "Y"}

\* build_tweet, given today's date as strftime printed it; raises when
\* pytz does not know a non-empty tzname
build_tweet(raw_text, tz, today, add_date, add_hashtag) ==
    IF tz # "" /\ ~KnownZone(tz) THEN [exc |-> "UnknownTimeZoneError", text |-> <<>>]
    ELSE LET hashtag == strip(add_hashtag)
             parts == raw_text
                      \o (IF AddDateFlag(add_date) THEN <<"\n", "\n">> \o today ELSE <<>>)
                      \o (IF hashtag # <<>> THEN <<" ", "#">> \o hashtag ELSE <<>>)
         IN [exc |-> "none", text |-> trim_to_limit(strip(parts), TweetLimit)]

-----------------------------------------------------------------------------
(* Idea store: load_ideas (main.py:40-46) *)

\* the i-th idea of the content file, as typed (with trailing blanks)
IdeaLine(i) ==
    IF i = 1 THEN <<"A", " ">> \o TopicToken \o <<" ">>
    ELSE <<"n", Digits[i + 1], " ", " ">>

NoIdeasFile == [exists |-> FALSE, lines |-> <<>>]
IdeasFileOf(k) == [exists |-> TRUE, lines |-> [i \in 1..k |-> IdeaLine(i)] \o << <<" ">> >>]

\* the content files considered: absent, empty, blank lines only, k ideas
IdeaFiles ==
    {NoIdeasFile, [exists |-> TRUE, lines |-> <<>>], IdeasFileOf(0)}
    \cup {IdeasFileOf(k) : k \in 1..MaxIdeas}

NonBlank(line) == strip(line) # <<>>

load_ideas(f) ==
    IF ~f.exists THEN [exc |-> "FileNotFoundError", ideas |-> <<>>]
    ELSE LET kept == SelectSeq(f.lines, NonBlank)
             stripped == [i \in DOMAIN kept |-> strip(kept[i])]
         IN IF stripped = <<>> THEN [exc |-> "ValueError", ideas |-> <<>>]
            ELSE [exc |-> "none", ideas |-> stripped]

-----------------------------------------------------------------------------
(* State store: load_state (main.py:29-35), save_state (main.py:37-38) *)

AbsentFile == [kind |-> "absent"]
GarbageFile == [kind |-> "garbage"]          \* json.loads raises on it
JsonFile(v) == [kind |-> "json", val |-> v]  \* json.loads returns v

DefaultState == PyDict(PyInt(0), PyList(<<>>), None)

load_state(f) == IF f.kind = "json" THEN f.val ELSE DefaultState

\* json.dumps of a dict of ints, lists of ints and None reads back as itself
save_state(st) == JsonFile(st)

\* state files a run may find that no run of this program wrote
ForeignFiles ==
    {GarbageFile,
     JsonFile(None),                                              \* null
     JsonFile(PyList(<<>>)),                                      \* []
     JsonFile(PyDict(Missing, Missing, Missing)),                 \* {}
     JsonFile(DefaultState),
     JsonFile(PyDict(PyInt(1), PyList(<<0, MaxIdeas + 2>>), None)),  \* index >= n
     JsonFile(PyDict(None, PyList(<<0>>), None)),                 \* "index": null
     JsonFile(PyDict(Missing, PyList(<<0>>), None)),              \* no "index"
     JsonFile(PyDict(PyInt(0), PyInt(7), None)),                  \* "order": 7
     JsonFile(PyDict(PyInt(0), PyList(<<0 - MaxIdeas - 1>>), None)), \* negative entry
     JsonFile(PyDict(PyInt(5), PyList(<<0>>), None))}             \* cursor past the end

-----------------------------------------------------------------------------
(* Rotation engine: ensure_order (main.py:48-56), selection (main.py:135-143) *)

\* as ensure_order, but regenerating on every call
ensure_order_always(st, n) ==
    IF st.t # "dict"
    THEN {[exc |-> "AttributeError", state |-> st, ret |-> <<>>]}
    ELSE {[exc |-> "none",
           state |-> [st EXCEPT !.order = PyList(o), !.index = PyInt(0)],
           ret |-> o] : o \in Shuffles(range(n))}

\* as ensure_order, but leaving state["index"] alone when it regenerates
ensure_order_keepindex(st, n) ==
    IF st.t # "dict"
    THEN {[exc |-> "AttributeError", state |-> st, ret |-> <<>>]}
    ELSE LET order == IF Truthy(st.order) THEN st.order ELSE PyList(<<>>)
         IN IF order.t # "list"
            THEN {[exc |-> "TypeError", state |-> st, ret |-> <<>>]}
            ELSE IF order.l = <<>> \/ \E i \in DOMAIN order.l : order.l[i] >= n
                 THEN {[exc |-> "none",
                        state |-> [st EXCEPT !.order = PyList(o)],
                        ret |-> o] : o \in Shuffles(range(n))}
                 ELSE {[exc |-> "none", state |-> st, ret |-> order.l]}

\* Every outcome of ensure_order(state, n): the exception raised, the state
\* dict afterwards and the returned list.
ensure_order(st, n) ==
    IF st.t # "dict"
    THEN {[exc |-> "AttributeError", state |-> st, ret |-> <<>>]}   \* no .get
    ELSE LET order == IF Truthy(st.order) THEN st.order ELSE PyList(<<>>)
         IN IF order.t # "list"
            THEN {[exc |-> "TypeError", state |-> st, ret |-> <<>>]}    \* not iterable
            ELSE IF order.l = <<>> \/ \E i \in DOMAIN order.l : order.l[i] >= n
                 THEN {[exc |-> "none",
                        state |-> [st EXCEPT !.order = PyList(o), !.index = PyInt(0)],
                        ret |-> o] : o \in Shuffles(range(n))}
                 ELSE {[exc |-> "none", state |-> st, ret |-> order.l]}

\* lst[i] of Python for a list lst: negative i counts from the end
Subscript(lst, i) ==
    IF 0 <= i /\ i < Len(lst) THEN [ok |-> TRUE, v |-> lst[i + 1]]
    ELSE IF i < 0 /\ 0 - i <= Len(lst) THEN [ok |-> TRUE, v |-> lst[Len(lst) + i + 1]]
    ELSE [ok |-> FALSE, v |-> 0]

\* as SelectNext, but a consumed order is reshuffled without moving the cursor
\* back to its start: the last place is used again
SelectNext_lastagain(st) ==
    LET idx0 == IF st.index.t = "missing" THEN PyInt(0) ELSE st.index
        order == st.order.l
        Pick(s, o, i) ==
            IF Subscript(o, i).ok
            THEN [exc |-> "none", state |-> s, idx |-> i, idea_index |-> Subscript(o, i).v]
            ELSE [exc |-> "IndexError", state |-> s, idx |-> i, idea_index |-> 0]
    IN IF idx0.t # "int"
       THEN {[exc |-> "TypeError", state |-> st, idx |-> 0, idea_index |-> 0]}
       ELSE IF idx0.v >= Len(order)
            THEN {Pick([st EXCEPT !.order = PyList(o)], o, Len(o) - 1) : o \in Shuffles(order)}
            ELSE {Pick(st, order, idx0.v)}

\* as SelectNext, but reshuffling only once the cursor is past len(order)
SelectNext_offbyone(st) ==
    LET idx0 == IF st.index.t = "missing" THEN PyInt(0) ELSE st.index
        order == st.order.l
        Pick(s, o, i) ==
            IF Subscript(o, i).ok
            THEN [exc |-> "none", state |-> s, idx |-> i, idea_index |-> Subscript(o, i).v]
            ELSE [exc |-> "IndexError", state |-> s, idx |-> i, idea_index |-> 0]
    IN IF idx0.t # "int"
       THEN {[exc |-> "TypeError", state |-> st, idx |-> 0, idea_index |-> 0]}
       ELSE IF idx0.v > Len(order)
            THEN {Pick([st EXCEPT !.order = PyList(o)], o, 0) : o \in Shuffles(order)}
            ELSE {Pick(st, order, idx0.v)}

\* Every outcome of main.py:135-143 on the state ensure_order left: the
\* exception, the state (order reshuffled in place when the cursor is past
\* the end), the local idx and the chosen idea_index.
SelectNext(st) ==
    LET idx0 == IF st.index.t = "missing" THEN PyInt(0) ELSE st.index
        order == st.order.l
        Pick(s, o, i) ==
            IF Subscript(o, i).ok
            THEN [exc |-> "none", state |-> s, idx |-> i, idea_index |-> Subscript(o, i).v]
            ELSE [exc |-> "IndexError", state |-> s, idx |-> i, idea_index |-> 0]
    IN IF idx0.t # "int"
       THEN {[exc |-> "TypeError", state |-> st, idx |-> 0, idea_index |-> 0]}
       ELSE IF idx0.v >= Len(order)
            THEN {Pick([st EXCEPT !.order = PyList(o)], o, 0) : o \in Shuffles(order)}
            ELSE {Pick(st, order, idx0.v)}

-----------------------------------------------------------------------------
(* Environment of a run *)

NoText == <<>>
HM0900 == <<"0", "9", ":", "0", "0">>
HM1200 == <<"1", "2", ":", "0", "0">>

Setting(tz, start, end, tp) ==
    [TIMEZONE |-> tz, RUN_WINDOW_START |-> start, RUN_WINDOW_END |-> end, TOPIC |-> tp]

\* what main reads from os.environ on entry (main.py:122-125): nothing set,
\* a window and a topic, a window in a zone pytz does not know
Settings ==
    {Setting("Europe/Riga", NoText, NoText, NoText),
     Setting("Europe/Riga", HM0900, HM1200, <<" ", "X">>),
     Setting("Mars/Olympus", HM0900, HM1200, NoText)}

\* ADD_DATE and ADD_HASHTAG as build_tweet reads them
Suffixes == {[ADD_DATE |-> "true", ADD_HASHTAG |-> NoText],
             [ADD_DATE |-> "false", ADD_HASHTAG |-> <<"t", " ">>]}

\* UTC clock readings at the gate: 08:00 and 10:30 in Riga
GateClock == {360, 510}

\* today's date as strftime("%Y-%m-%d") prints it
Today == <<"2", "0", "2", "4", "-", "0", "1", "-", "3", "1">>

Stamps == 1..MaxStamp                         \* readings of datetime.utcnow()

-----------------------------------------------------------------------------
(* main (main.py:119-158), one action per step of an invocation p *)

NoState == None
NoRun == [exit |-> "never", selected |-> FALSE, idea |-> 0]

\* the run ends: an exception propagates out of main, or main returns
Finish(p, how, selected, idea) ==
    /\ pc' = [pc EXCEPT ![p] = "idle"]
    /\ exit' = [exit EXCEPT ![p] = how]
    /\ last' = IF how = "skipped" THEN last
               ELSE [exit |-> how, selected |-> selected, idea |-> idea]
    /\ streak' = CASE how = "skipped" -> streak
                   [] how = "posted" /\ streak # <<>> /\ Len(streak) < Len(ideas[p]) ->
                          Append(streak, idea)
                   [] how = "posted" /\ load_state(file0[p]) = DefaultState -> <<idea>>
                   [] OTHER -> <<>>
    /\ tzname' = [tzname EXCEPT ![p] = ""]
    /\ topic' = [topic EXCEPT ![p] = <<>>]
    /\ ideas' = [ideas EXCEPT ![p] = <<>>]
    /\ state' = [state EXCEPT ![p] = NoState]
    /\ idx' = [idx EXCEPT ![p] = 0]
    /\ idea_index' = [idea_index EXCEPT ![p] = 0]
    /\ tweet' = [tweet EXCEPT ![p] = <<>>]

Did(p, what) == trace' = [trace EXCEPT ![p] = Append(@, what)]

\* as Start, but a skipped run writes the state it would have loaded
Start_touches(p) ==
    /\ pc[p] = "idle"
    /\ file0' = [file0 EXCEPT ![p] = file]
    /\ trace' = [trace EXCEPT ![p] = <<"within_run_window">>]
    /\ \E e \in Settings, utc \in GateClock :
         LET open == within_run_window(e.TIMEZONE, e.RUN_WINDOW_START,
                                       e.RUN_WINDOW_END, utc)
         IN IF open.exc # "none" THEN Finish(p, open.exc, FALSE, 0) /\ file' = file
            ELSE IF open.ret
            THEN /\ pc' = [pc EXCEPT ![p] = "load_ideas"]
                 /\ tzname' = [tzname EXCEPT ![p] = e.TIMEZONE]
                 /\ topic' = [topic EXCEPT ![p] = strip(e.TOPIC)]
                 /\ exit' = [exit EXCEPT ![p] = "running"]
                 /\ file' = file
                 /\ UNCHANGED <<ideas, state, idx, idea_index, tweet, last, streak>>
            ELSE /\ Finish(p, "skipped", FALSE, 0)
                 /\ file' = save_state(load_state(file))
    /\ UNCHANGED <<ideasFile, pristine, call>>

\* main.py:120-129: read the environment, ask the gate
Start(p) ==
    /\ pc[p] = "idle"
    /\ file0' = [file0 EXCEPT ![p] = file]
    /\ trace' = [trace EXCEPT ![p] = <<"within_run_window">>]
    /\ \E e \in Settings, utc \in GateClock :
         LET open == within_run_window(e.TIMEZONE, e.RUN_WINDOW_START,
                                       e.RUN_WINDOW_END, utc)
         IN IF open.exc # "none" THEN Finish(p, open.exc, FALSE, 0)
            ELSE IF open.ret
            THEN /\ pc' = [pc EXCEPT ![p] = "load_ideas"]
                 /\ tzname' = [tzname EXCEPT ![p] = e.TIMEZONE]
                 /\ topic' = [topic EXCEPT ![p] = strip(e.TOPIC)]
                 /\ exit' = [exit EXCEPT ![p] = "running"]
                 /\ UNCHANGED <<ideas, state, idx, idea_index, tweet, last, streak>>
            ELSE Finish(p, "skipped", FALSE, 0)
    /\ UNCHANGED <<file, ideasFile, pristine, call>>

\* main.py:131
LoadIdeas(p) ==
    /\ pc[p] = "load_ideas"
    /\ Did(p, "load_ideas")
    /\ LET r == load_ideas(ideasFile)
       IN IF r.exc # "none"
          THEN Finish(p, r.exc, FALSE, 0)
          ELSE /\ ideas' = [ideas EXCEPT ![p] = r.ideas]
               /\ pc' = [pc EXCEPT ![p] = "load_state"]
               /\ UNCHANGED <<tzname, topic, state, idx, idea_index, tweet, exit,
                              last, streak>>
    /\ UNCHANGED <<file, ideasFile, file0, pristine, call>>

\* main.py:132
LoadState(p) ==
    /\ pc[p] = "load_state"
    /\ Did(p, "load_state")
    /\ state' = [state EXCEPT ![p] = load_state(file)]
    /\ pc' = [pc EXCEPT ![p] = "ensure_order"]
    /\ UNCHANGED <<file, ideasFile, tzname, topic, ideas, idx, idea_index, tweet,
                   exit, file0, last, streak, pristine, call>>

\* main.py:133
EnsureOrder(p) ==
    /\ pc[p] = "ensure_order"
    /\ Did(p, "ensure_order")
    /\ \E r \in ensure_order(state[p], Len(ideas[p])) :
         IF r.exc # "none"
         THEN Finish(p, r.exc, FALSE, 0)
         ELSE /\ state' = [state EXCEPT ![p] = r.state]
              /\ pc' = [pc EXCEPT ![p] = "select"]
              /\ UNCHANGED <<tzname, topic, ideas, idx, idea_index, tweet, exit,
                             last, streak>>
    /\ UNCHANGED <<file, ideasFile, file0, pristine, call>>

\* main.py:135-143
Select(p) ==
    /\ pc[p] = "select"
    /\ Did(p, "select")
    /\ \E r \in SelectNext(state[p]) :
         IF r.exc # "none"
         THEN Finish(p, r.exc, FALSE, 0)
         ELSE /\ state' = [state EXCEPT ![p] = r.state]
              /\ idx' = [idx EXCEPT ![p] = r.idx]
              /\ idea_index' = [idea_index EXCEPT ![p] = r.idea_index]
              /\ pc' = [pc EXCEPT ![p] = "compose"]
              /\ UNCHANGED <<tzname, topic, ideas, tweet, exit, last, streak>>
    /\ UNCHANGED <<file, ideasFile, file0, pristine, call>>

\* main.py:144-148
Compose(p) ==
    /\ pc[p] = "compose"
    /\ Did(p, "build_tweet")
    /\ LET looked == Subscript(ideas[p], idea_index[p])
           raw_text == IF topic[p] # <<>> /\ Contains(looked.v, TopicToken)
                       THEN replace(looked.v, TopicToken, topic[p])
                       ELSE looked.v
       IN IF ~looked.ok
          THEN Finish(p, "IndexError", TRUE, idea_index[p])
          ELSE \E sfx \in Suffixes :
                 LET r == build_tweet(raw_text, tzname[p], Today,
                                      sfx.ADD_DATE, sfx.ADD_HASHTAG)
                 IN IF r.exc # "none"
                    THEN Finish(p, r.exc, TRUE, idea_index[p])
                    ELSE /\ tweet' = [tweet EXCEPT ![p] = r.text]
                         /\ pc' = [pc EXCEPT ![p] = "post"]
                         /\ UNCHANGED <<tzname, topic, ideas, state, idx, idea_index,
                                        exit, last, streak>>
    /\ UNCHANGED <<file, ideasFile, file0, pristine, call>>

\* as Post, but the cursor is saved before the request is made
Post_savesfirst(p) ==
    /\ pc[p] = "post"
    /\ \E keys \in BOOLEAN :
         IF ~keys
         THEN /\ Did(p, "post_tweet")
              /\ Finish(p, "RuntimeError", TRUE, idea_index[p])
              /\ file' = file
         ELSE /\ trace' = [trace EXCEPT ![p] = @ \o <<"post_tweet", "update_status">>]
              /\ file' = save_state([state[p] EXCEPT !.index = PyInt(idx[p] + 1)])
              /\ \E accepted \in BOOLEAN :
                   IF accepted
                   THEN /\ pc' = [pc EXCEPT ![p] = "save"]
                        /\ UNCHANGED <<tzname, topic, ideas, state, idx, idea_index,
                                       tweet, exit, last, streak>>
                   ELSE Finish(p, "TweepyException", TRUE, idea_index[p])
    /\ UNCHANGED <<ideasFile, file0, pristine, call>>

\* as Post, but the keys are looked at only after the request
Post_keyslate(p) ==
    /\ pc[p] = "post"
    /\ trace' = [trace EXCEPT ![p] = @ \o <<"post_tweet", "update_status">>]
    /\ \E keys \in BOOLEAN :
         IF ~keys
         THEN Finish(p, "RuntimeError", TRUE, idea_index[p])
         ELSE \E accepted \in BOOLEAN :
                   IF accepted
                   THEN /\ pc' = [pc EXCEPT ![p] = "save"]
                        /\ UNCHANGED <<tzname, topic, ideas, state, idx, idea_index,
                                       tweet, exit, last, streak>>
                   ELSE Finish(p, "TweepyException", TRUE, idea_index[p])
    /\ UNCHANGED <<file, ideasFile, file0, pristine, call>>

\* main.py:151, post_tweet (main.py:104-117): without the four keys it raises
\* before any request; otherwise api.update_status succeeds or raises
Post(p) ==
    /\ pc[p] = "post"
    /\ \E keys \in BOOLEAN :
         IF ~keys
         THEN /\ Did(p, "post_tweet")
              /\ Finish(p, "RuntimeError", TRUE, idea_index[p])
         ELSE /\ trace' = [trace EXCEPT ![p] = @ \o <<"post_tweet", "update_status">>]
              /\ \E accepted \in BOOLEAN :
                   IF accepted
                   THEN /\ pc' = [pc EXCEPT ![p] = "save"]
                        /\ UNCHANGED <<tzname, topic, ideas, state, idx, idea_index,
                                       tweet, exit, last, streak>>
                   ELSE Finish(p, "TweepyException", TRUE, idea_index[p])
    /\ UNCHANGED <<file, ideasFile, file0, pristine, call>>

\* as Save, but taking the cursor from the file as it is now, not from the
\* state this run loaded
Save_rereads(p) ==
    /\ pc[p] = "save"
    /\ Did(p, "save_state")
    /\ \E now \in Stamps :
         file' = save_state([state[p] EXCEPT
                    !.index = IF file.kind = "json" /\ file.val.index.v > idx[p]
                              THEN PyInt(file.val.index.v + 1)
                              ELSE PyInt(idx[p] + 1),
                    !.last_posted_at = PyInt(now)])
    /\ Finish(p, "posted", TRUE, idea_index[p])
    /\ UNCHANGED <<ideasFile, file0, pristine, call>>

\* main.py:153-158
Save(p) ==
    /\ pc[p] = "save"
    /\ Did(p, "save_state")
    /\ \E now \in Stamps :
         file' = save_state([state[p] EXCEPT !.index = PyInt(idx[p] + 1),
                                             !.last_posted_at = PyInt(now)])
    /\ Finish(p, "posted", TRUE, idea_index[p])
    /\ UNCHANGED <<ideasFile, file0, pristine, call>>

\* somebody edits content/ideas_ru.txt between two runs
EditIdeas ==
    /\ \A p \in Procs : pc[p] = "idle"
    /\ \E f \in IdeaFiles \ {ideasFile} : ideasFile' = f
    /\ last' = NoRun
    /\ streak' = <<>>
    /\ UNCHANGED <<file, pc, tzname, topic, ideas, state, idx, idea_index, tweet,
                   exit, file0, trace, pristine, call>>

Run(p) ==
    \/ Start(p)
    \/ LoadIdeas(p)
    \/ LoadState(p)
    \/ EnsureOrder(p)
    \/ Select(p)
    \/ Compose(p)
    \/ Post(p)
    \/ Save(p)

NoCall == [fn |-> "none"]

\* no invocation has run yet
Idle ==
    /\ pc = [p \in Procs |-> "idle"]
    /\ tzname = [p \in Procs |-> ""]
    /\ topic = [p \in Procs |-> <<>>]
    /\ ideas = [p \in Procs |-> <<>>]
    /\ state = [p \in Procs |-> NoState]
    /\ idx = [p \in Procs |-> 0]
    /\ idea_index = [p \in Procs |-> 0]
    /\ tweet = [p \in Procs |-> <<>>]
    /\ exit = [p \in Procs |-> "never"]
    /\ trace = [p \in Procs |-> <<>>]
    /\ last = NoRun
    /\ streak = <<>>

Init ==
    /\ file \in {AbsentFile} \cup ForeignFiles
    /\ pristine = (file = AbsentFile)
    /\ ideasFile \in IdeaFiles
    /\ file0 = [p \in Procs |-> file]
    /\ Idle
    /\ call = NoCall

\* the scheduler starts one invocation at a time
Next == Run(1) \/ EditIdeas

Spec == Init /\ [][Next]_vars

-----------------------------------------------------------------------------
(* within_run_window on its own: every call with the arguments below *)

FormatHM(h, m) ==
    <<Digits[(h \div 10) + 1], Digits[(h % 10) + 1], ":",
      Digits[(m \div 10) + 1], Digits[(m % 10) + 1]>>

\* bounds as typed, each with the minute of the day it stands for (-1: none)
WellFormedBounds ==
    {[text |-> FormatHM(t[1], t[2]), at |-> t[1] * 60 + t[2]] :
        t \in {<<0, 0>>, <<2, 0>>, <<9, 0>>, <<9, 30>>, <<12, 0>>, <<22, 0>>, <<23, 59>>}}
    \cup {[text |-> <<"9", ":", "5">>, at |-> 545]}

MalformedBounds ==
    {[text |-> x, at |-> 0 - 1] :
        x \in {<<"0", "9", "0", "0">>,                       \* no colon
               <<"2", "4", ":", "0", "0">>,                  \* hour 24
               <<"0", "9", ":", "6", "0">>,                  \* minute 60
               <<"-", "1", ":", "0", "0">>,                  \* hour -1
               <<"a", "b", ":", "c", "d">>,                  \* not numbers
               <<"0", "9", ":", "0", "0", ":", "0", "0">>}}  \* seconds given

UnsetBound == [text |-> <<>>, at |-> 0 - 1]

GateBounds == WellFormedBounds \cup MalformedBounds \cup {UnsetBound}
GateZones == {"", "Europe/Riga", "Asia/Tokyo", "Mars/Olympus"}
\* UTC clock readings: around every quarter the bounds above fall on
GateNows == {h * 60 + m : h \in 0..23, m \in {0, 1, 4, 5, 6, 29, 30, 31, 58, 59}}

InitGate ==
    /\ file = AbsentFile
    /\ pristine = TRUE
    /\ ideasFile = NoIdeasFile
    /\ file0 = [p \in Procs |-> file]
    /\ Idle
    /\ call \in {[fn |-> "within_run_window", tz |-> z, start |-> s, end |-> e,
                  utc |-> u, done |-> FALSE, out |-> [exc |-> "none", ret |-> FALSE]] :
                    z \in GateZones, s \in GateBounds, e \in GateBounds, u \in GateNows}

CallWithinRunWindow ==
    /\ call.fn = "within_run_window"
    /\ ~call.done
    /\ call' = [call EXCEPT !.done = TRUE,
                            !.out = within_run_window(call.tz, call.start.text,
                                                      call.end.text, call.utc)]
    /\ UNCHANGED runVars

SpecGate == InitGate /\ [][CallWithinRunWindow]_vars

-----------------------------------------------------------------------------
(* ensure_order on its own: every call with the arguments below *)

OrderLists == UNION {[1..k -> 0..MaxIdeas] : k \in 0..MaxIdeas}

EnsureStates ==
    {PyDict(i, o, None) :
        i \in {Missing, PyInt(0), PyInt(1), PyInt(2)},
        o \in {Missing, None, PyInt(7)} \cup {PyList(l) : l \in OrderLists}}
    \cup {None, PyList(<<>>)}

InitEnsure ==
    /\ file = AbsentFile
    /\ pristine = TRUE
    /\ ideasFile = NoIdeasFile
    /\ file0 = [p \in Procs |-> file]
    /\ Idle
    /\ call \in {[fn |-> "ensure_order", st |-> s, n |-> k, done |-> FALSE,
                  out |-> [exc |-> "none", state |-> s, ret |-> <<>>]] :
                    s \in EnsureStates, k \in 1..MaxIdeas}

CallEnsureOrder ==
    /\ call.fn = "ensure_order"
    /\ ~call.done
    /\ \E r \in ensure_order(call.st, call.n) :
         call' = [call EXCEPT !.done = TRUE, !.out = r]
    /\ UNCHANGED runVars

SpecEnsure == InitEnsure /\ [][CallEnsureOrder]_vars

-----------------------------------------------------------------------------
(* Properties *)

\* the ideas a run would load now
CurrentIdeas == load_ideas(ideasFile).ideas

StateErrors == {"AttributeError", "TypeError", "IndexError"}

\* C1: successful runs in a row, the first of which found a fresh state, post
\* pairwise different ideas of the unchanged list, and n of them post all of
\* [0, n).
C1_EveryIdeaOncePerCycle ==
    streak # <<>> =>
        LET n == Len(CurrentIdeas)
        IN /\ Len(streak) <= n
           /\ \A i, j \in DOMAIN streak : streak[i] = streak[j] => i = j
           /\ Range(streak) \subseteq 0..(n - 1)
           /\ Len(streak) = n => Range(streak) = 0..(n - 1)

C1_Witness == Len(streak) = MaxIdeas /\ Len(CurrentIdeas) = MaxIdeas

\* C2: a run that ended because the publish call failed has made no
\* save_state call, and the state file is what it was when the run started.
C2_FailedPublishKeepsState ==
    \A p \in Procs :
        exit[p] \in {"TweepyException", "RuntimeError"} =>
            /\ file = file0[p]
            /\ \A i \in DOMAIN trace[p] : trace[p][i] # "save_state"

C2_Witness ==
    /\ exit[1] = "TweepyException"
    /\ file.kind = "json" /\ file.val.t = "dict" /\ file.val.index = PyInt(1)

\* C3: when the latest run that passed the gate failed at the publish call,
\* and the ideas have not changed, the run that next reaches item selection
\* selects the idea the failed run had selected.
C3_RetrySameIdea ==
    \A p \in Procs :
        (pc[p] = "compose" /\ last.exit = "TweepyException") =>
            idea_index[p] = last.idea

\* C4: with a state file that only this program ever wrote, the order a run
\* selects from is a permutation of [0, n) for the n ideas it loaded.
C4_OrderIsPermutation ==
    \A p \in Procs :
        (pristine /\ pc[p] = "compose") =>
            IsPermutation(state[p].order.l, Len(ideas[p]))

\* C5: a run the gate turned away has called nothing but the gate (no idea
\* load, no publish, no save) and the state file is what it was before.
C5_GateClosedNoEffect ==
    \A p \in Procs :
        exit[p] = "skipped" =>
            /\ trace[p] = <<"within_run_window">>
            /\ file = file0[p]
            /\ pc[p] = "idle"

C5_Witness ==
    /\ exit[1] = "skipped"
    /\ file.kind = "json" /\ file.val.t = "dict" /\ file.val.last_posted_at # None

\* C6: no run ends with an exception raised while the loaded state is
\* validated and used for selection, whatever the state file holds.
C6_StateNeverFatal == \A p \in Procs : exit[p] \notin StateErrors

\* the order of st is missing, empty or holds an index >= n
C7_Invalid(st, n) ==
    /\ st.t = "dict"
    /\ \/ st.order.t = "missing"
       \/ st.order.t = "list" /\ st.order.l = <<>>
       \/ st.order.t = "list" /\ \E i \in DOMAIN st.order.l : st.order.l[i] >= n

\* C7: called on a dict whose order is missing, empty or holds an index >= n,
\* ensure_order leaves a permutation of [0, n) in state.order and 0 in
\* state.index, and returns that order.
C7_EnsureOrderRegenerates ==
    (call.fn = "ensure_order" /\ call.done /\ C7_Invalid(call.st, call.n)) =>
        /\ call.out.exc = "none"
        /\ call.out.state.order.t = "list"
        /\ IsPermutation(call.out.state.order.l, call.n)
        /\ call.out.state.index = PyInt(0)
        /\ call.out.ret = call.out.state.order.l

C7_Witness ==
    /\ call.fn = "ensure_order" /\ call.done
    /\ call.st.t = "dict" /\ call.st.order.t = "list"
    /\ \E i \in DOMAIN call.st.order.l : call.st.order.l[i] >= call.n
    /\ call.st.index = PyInt(2)
    /\ call.n = MaxIdeas

\* C8: a run that ended with the configuration error (keys missing) or a
\* content error (idea file missing or without a non-blank line) has made no
\* request to the publisher and the state file is what it was before.
C8_AbortBeforeNetworkAndState ==
    \A p \in Procs :
        exit[p] \in {"RuntimeError", "FileNotFoundError", "ValueError"} =>
            /\ \A i \in DOMAIN trace[p] : trace[p][i] \notin {"update_status", "save_state"}
            /\ file = file0[p]

C8_Witness ==
    /\ exit[1] = "RuntimeError"
    /\ file.kind = "json" /\ file.val.t = "dict" /\ file.val.index = PyInt(1)

\* C9: with a known zone and both bounds well formed, within_run_window
\* returns true exactly when start <= now < end if end > start, and when
\* now >= start or now < end if end <= start, all on the local day of now.
C9_WindowHalfOpen ==
    (/\ call.fn = "within_run_window" /\ call.done
     /\ KnownZone(call.tz) /\ call.start.at >= 0 /\ call.end.at >= 0) =>
        LET now == LocalNow(call.tz, call.utc)
            start == call.start.at
            end == call.end.at
        IN /\ call.out.exc = "none"
           /\ call.out.ret <=> IF end > start THEN start <= now /\ now < end
                               ELSE now >= start \/ now < end

\* a call at the very minute the window ends, and one at the minute it starts
C9_Witness ==
    /\ call.fn = "within_run_window" /\ call.done
    /\ KnownZone(call.tz) /\ call.start.at >= 0 /\ call.end.at > call.start.at
    /\ LocalNow(call.tz, call.utc) = call.end.at
    /\ ~call.out.ret

\* C10: within_run_window returns true, and raises nothing, whenever the
\* zone or a bound is unset or empty, the zone is unknown, or a bound is
\* malformed.
C10_GateFailsOpen ==
    (/\ call.fn = "within_run_window" /\ call.done
     /\ \/ call.tz = "" \/ call.start.text = <<>> \/ call.end.text = <<>>
        \/ ~KnownZone(call.tz)
        \/ call.start.at < 0 \/ call.end.at < 0) =>
        call.out = [exc |-> "none", ret |-> TRUE]

C10_Witness ==
    /\ call.fn = "within_run_window" /\ call.done
    /\ call.tz = "Mars/Olympus"
    /\ call.start.at >= 0 /\ call.end.at >= 0
    /\ call.out = [exc |-> "none", ret |-> TRUE]

-----------------------------------------------------------------------------
(* trim_to_limit and build_tweet on their own *)

TrimTexts == UNION {[1..k -> {"a", "b", " "}] : k \in 0..MaxText}

\* a text of n characters with a space at every gap-th place
LongText(n, gap) == [i \in 1..n |-> IF i % gap = 0 THEN " " ELSE "a"]

\* raw texts around the limit, with and without spaces
TweetTexts ==
    {LongText(n, gap) :
        n \in {TweetLimit - 13, TweetLimit - 12, TweetLimit - 1, TweetLimit,
               TweetLimit + 1, TweetLimit + 20},
        gap \in {7, TweetLimit, 2 * TweetLimit}}

InitTrim ==
    /\ file = AbsentFile
    /\ pristine = TRUE
    /\ ideasFile = NoIdeasFile
    /\ file0 = [p \in Procs |-> file]
    /\ Idle
    /\ call \in {[fn |-> "trim_to_limit", text |-> x, limit |-> k,
                  done |-> FALSE, out |-> <<>>] :
                    x \in TrimTexts, k \in 1..MaxLimit}
                \cup
                {[fn |-> "build_tweet", text |-> x, sfx |-> f, tz |-> z,
                  done |-> FALSE, out |-> [exc |-> "none", text |-> <<>>]] :
                    x \in TweetTexts, f \in Suffixes, z \in {"", "Europe/Riga"}}

CallTrimToLimit ==
    /\ call.fn = "trim_to_limit"
    /\ ~call.done
    /\ call' = [call EXCEPT !.done = TRUE, !.out = trim_to_limit(call.text, call.limit)]
    /\ UNCHANGED runVars

CallBuildTweet ==
    /\ call.fn = "build_tweet"
    /\ ~call.done
    /\ call' = [call EXCEPT !.done = TRUE,
                            !.out = build_tweet(call.text, call.tz, Today,
                                                call.sfx.ADD_DATE, call.sfx.ADD_HASHTAG)]
    /\ UNCHANGED runVars

NextTrim == CallTrimToLimit \/ CallBuildTweet

SpecTrim == InitTrim /\ [][NextTrim]_vars

\* C11: trim_to_limit never returns more than limit characters, and no
\* composed post is longer than 280 characters.
C11_WithinLimit ==
    /\ (call.fn = "trim_to_limit" /\ call.done) => Len(call.out) <= call.limit
    /\ (call.fn = "build_tweet" /\ call.done) => Len(call.out.text) <= 280

\* a text without a space, one character too long for the limit, was cut
C11_Witness ==
    /\ call.fn = "trim_to_limit" /\ call.done
    /\ Len(call.text) = call.limit + 1
    /\ \A i \in DOMAIN call.text : call.text[i] # " "
    /\ call.limit = MaxLimit
    /\ Len(call.out) = call.limit

\* C12: a text within the limit comes back unchanged; a longer one comes back
\* as its first characters up to, not including, the last space among the
\* first limit characters (the first limit-1 characters if there is no
\* space), followed by one ellipsis.
C12_TrimShape ==
    (call.fn = "trim_to_limit" /\ call.done) =>
        IF Len(call.text) <= call.limit THEN call.out = call.text
        ELSE LET spaces == {i \in 1..call.limit : call.text[i] = " "}
                 keep == IF spaces = {} THEN call.limit - 1
                         ELSE (CHOOSE i \in spaces : \A j \in spaces : j <= i) - 1
             IN /\ call.out = SubSeq(call.text, 1, keep) \o <<Ellipsis>>
                /\ call.out[Len(call.out)] = Ellipsis
                /\ \A i \in 1..(Len(call.out) - 1) : call.out[i] # Ellipsis

\* "a b b" with limit 4: cut back to "a" and the ellipsis
C12_Witness ==
    /\ call.fn = "trim_to_limit" /\ call.done
    /\ call.text = <<"a", " ", "b", "b", "a">>
    /\ call.limit = 4
    /\ call.out = <<"a", Ellipsis>>

\* C16: called on a dict whose order is a non-empty list with every entry
\* below n, ensure_order changes nothing in the dict (cursor and order stay)
\* and returns that order.
C16_EnsureOrderKeepsValid ==
    (/\ call.fn = "ensure_order" /\ call.done
     /\ call.st.t = "dict" /\ call.st.order.t = "list" /\ call.st.order.l # <<>>
     /\ \A i \in DOMAIN call.st.order.l : call.st.order.l[i] < call.n) =>
        /\ call.out.exc = "none"
        /\ call.out.state = call.st
        /\ call.out.ret = call.st.order.l

C16_Witness ==
    /\ call.fn = "ensure_order" /\ call.done
    /\ call.n = MaxIdeas
    /\ call.st.t = "dict" /\ call.st.index = PyInt(2)
    /\ call.st.order.t = "list" /\ IsPermutation(call.st.order.l, MaxIdeas)
    /\ call.out.state = call.st

\* the calls of a run that goes all the way, in the order main makes them
StepsOfRun ==
    <<"within_run_window", "load_ideas", "load_state", "ensure_order", "select",
      "build_tweet", "post_tweet", "update_status", "save_state">>

\* C13: the calls a run has made are always a beginning of: gate, idea load,
\* state load, selection, composition, publish, save (so at most one save,
\* and none before the publish); and the state file only changes in the save
\* of a run whose publish request has returned successfully.
C13_StepOrder ==
    /\ [](\A p \in Procs : /\ Len(trace[p]) <= Len(StepsOfRun)
                           /\ trace[p] = SubSeq(StepsOfRun, 1, Len(trace[p])))
    /\ [][file' # file =>
            \E p \in Procs : /\ pc[p] = "save"
                             /\ trace[p][Len(trace[p])] = "update_status"
                             /\ trace'[p] = Append(trace[p], "save_state")]_vars

C13_Witness == exit[1] = "posted" /\ trace[1] = StepsOfRun /\ file # file0[1]

\* f is a state file this program can read as a valid state for n ideas,
\* with the cursor at or past the end of the order
CursorAtEnd(f, n) ==
    /\ f.kind = "json" /\ f.val.t = "dict"
    /\ f.val.index.t = "int" /\ f.val.order.t = "list" /\ f.val.order.l # <<>>
    /\ \A i \in DOMAIN f.val.order.l : f.val.order.l[i] \in 0..(n - 1)
    /\ f.val.index.v >= Len(f.val.order.l)

\* a and b hold the same elements, each as often
SameElements(a, b) ==
    /\ Len(a) = Len(b)
    /\ \A v \in Range(a) \cup Range(b) :
         Cardinality({i \in DOMAIN a : a[i] = v}) = Cardinality({i \in DOMAIN b : b[i] = v})

\* C14: a run that found the cursor at or past the end of a valid order and
\* posted has written index 1 and an order holding the same elements, and the
\* idea it posted is the first of that order.
C14_ReshuffleAfterCycle ==
    \A p \in Procs :
        (/\ exit[p] = "posted" /\ last.exit = "posted"
         /\ CursorAtEnd(file0[p], Len(CurrentIdeas))) =>
            /\ file.kind = "json" /\ file.val.t = "dict"
            /\ file.val.index = PyInt(1)
            /\ file.val.order.t = "list"
            /\ SameElements(file.val.order.l, file0[p].val.order.l)
            /\ last.idea = file.val.order.l[1]

\* the new cycle starts with the idea the previous cycle ended with
C14_Witness ==
    /\ exit[1] = "posted" /\ last.exit = "posted"
    /\ CursorAtEnd(file0[1], Len(CurrentIdeas))
    /\ IsPermutation(file0[1].val.order.l, MaxIdeas)
    /\ file0[1].val.index = PyInt(MaxIdeas)
    /\ file.val.order.l # file0[1].val.order.l
    /\ file.val.order.l[1] = file0[1].val.order.l[MaxIdeas]

-----------------------------------------------------------------------------
(* Runs one after the other, no state file at first, ideas never edited *)

InitFixed ==
    /\ file = AbsentFile
    /\ pristine = TRUE
    /\ ideasFile \in {IdeasFileOf(k) : k \in 1..MaxIdeas}
    /\ file0 = [p \in Procs |-> file]
    /\ Idle
    /\ call = NoCall

NextFixed == Run(1)

SpecFixed == InitFixed /\ [][NextFixed]_vars

\* C17: the cursor a run selects with is inside the order (no lookup fails),
\* and a written state file holds an order as long as the idea list and an
\* index from 1 to that length.
C17_CursorInRange ==
    /\ \A p \in Procs :
         /\ exit[p] \notin StateErrors
         /\ pc[p] \in {"compose", "post", "save"} =>
              /\ state[p].order.t = "list"
              /\ 0 <= idx[p] /\ idx[p] < Len(state[p].order.l)
    /\ file # AbsentFile =>
         /\ file.kind = "json" /\ file.val.t = "dict"
         /\ file.val.index.t = "int" /\ file.val.order.t = "list"
         /\ Len(file.val.order.l) = Len(CurrentIdeas)
         /\ 1 <= file.val.index.v /\ file.val.index.v <= Len(file.val.order.l)

\* a run found the cursor at the end of the order and selects from its start
C17_Witness ==
    /\ pc[1] = "compose" /\ idx[1] = 0
    /\ state[1].index = PyInt(MaxIdeas)
    /\ Len(state[1].order.l) = MaxIdeas
    /\ file.val.index = PyInt(MaxIdeas)

\* The scheduler keeps starting runs and every started run goes on to its
\* end; again and again a run is started with the gate open in a zone pytz
\* knows, and again and again the publisher accepts a post.
StartsOpen == Start(1) /\ pc'[1] = "load_ideas" /\ KnownZone(tzname'[1])
PostAccepted == Post(1) /\ pc'[1] = "save"

SpecLive ==
    /\ InitFixed /\ [][NextFixed]_vars
    /\ WF_vars(Run(1))
    /\ SF_vars(StartsOpen)
    /\ SF_vars(PostAccepted)

Posted(i) == exit[1] = "posted" /\ last.exit = "posted" /\ last.idea = i

\* C18: every idea of the list is posted again and again.
C18_EveryIdeaPostedAgain ==
    \A i \in 0..(MaxIdeas - 1) : []<>(i < Len(CurrentIdeas) => Posted(i))

\* the last idea of the list is posted in a cycle that is not the first
C18_Witness ==
    /\ Posted(MaxIdeas - 1)
    /\ Len(CurrentIdeas) = MaxIdeas
    /\ CursorAtEnd(file0[1], MaxIdeas)

-----------------------------------------------------------------------------
(* Invocations that overlap: nothing in main.py keeps a second one from      *)
(* starting while the first is still running                                 *)

\* state files runs of this program leave behind for n ideas: any cursor,
\* and one order standing for all of them (main treats every order alike)
WrittenFiles(n) ==
    {JsonFile(PyDict(PyInt(k), PyList(range(n)), PyInt(t))) : k \in 1..n, t \in Stamps}

\* each invocation is one process that goes through main once
InitConc ==
    /\ \E n \in 1..MaxIdeas :
         /\ ideasFile = IdeasFileOf(n)
         /\ file \in {AbsentFile} \cup WrittenFiles(n)
    /\ pristine = TRUE
    /\ file0 = [p \in Procs |-> file]
    /\ Idle
    /\ call = NoCall

StartOnce(p) == exit[p] = "never" /\ Start(p)

NextConc ==
    \E p \in Procs :
        \/ StartOnce(p)
        \/ LoadIdeas(p)
        \/ LoadState(p)
        \/ EnsureOrder(p)
        \/ Select(p)
        \/ Compose(p)
        \/ Post(p)
        \/ Save(p)

SpecConc == InitConc /\ [][NextConc]_vars

\* C15: an invocation under way is never held up by the other one, and what
\* a save leaves in the state file is the state that invocation loaded, with
\* its own cursor plus one and its timestamp: nothing of what the other
\* invocation wrote in between is kept.
C15_LastWriterWins ==
    /\ [](\A p \in Procs : pc[p] # "idle" => ENABLED Run(p))
    /\ [][\A p \in Procs :
            (pc[p] = "save" /\ pc'[p] = "idle") =>
                /\ file'.kind = "json"
                /\ file'.val = [state[p] EXCEPT
                                  !.index = PyInt(idx[p] + 1),
                                  !.last_posted_at = file'.val.last_posted_at]]_vars

\* both invocations started from the same valid state with the cursor inside
\* the order, both posted, and the cursor has moved by one only
C15_Witness ==
    /\ exit[1] = "posted" /\ exit[2] = "posted"
    /\ file0[1] = file0[2]
    /\ file0[1].kind = "json"
    /\ Len(file0[1].val.order.l) = MaxIdeas
    /\ file0[1].val.index = PyInt(1)
    /\ file.val.order = file0[1].val.order
    /\ file.val.index = PyInt(2)

=============================================================================
